---- MODULE Spec2Model ----
(***************************************************************************)
(* Deduplication and recommendation-memory engine of the Hunter AI content *)
(* factory: the pain-point record store with its vector index              *)
(* (src/intel/pain_store.py, src/intel/pain_radar.py) and the recommended- *)
(* projects history with its cooldown and prune                            *)
(* (src/intel/github_trending.py, src/intel/github_hunter.py).             *)
(*                                                                         *)
(* Distances are kept in thousandths, thresholds in hundredths, so that    *)
(* 1/(1+d) >= t is decided in exact integer arithmetic.  Hashes (sha256,   *)
(* md5) are collision-free: a digest is represented by the string hashed.  *)
(***************************************************************************)
EXTENDS Integers, Sequences, FiniteSets, TLC

VARIABLES
    store,          \* pain_points table: id -> row
    vectors,        \* collection pain_points_vectors: id -> document
    vecAvail,       \* PainStore.vector_collection is not None
    pain_points,    \* PainRadar.pain_points (session list)
    calls,          \* number of calls made so far
    last,           \* outcome of the latest call
    again,          \* the latest call repeated the one before it
    prevStore,      \* the table as it was before the latest call
    prevVectors,    \* the index as it was before the latest call
    today,          \* the clock, in days since 2025-01-01
    histFile,       \* data/recommended_projects.json
    pc,             \* per hunter: position in its run
    mem,            \* per hunter: self.recommended_history
    sel,            \* per hunter: projects selected/archived in this run
    run,            \* the run in progress: keyword, tried_keywords, retry,
                    \* what the latest select_projects skipped as similar,
                    \* items seen by hunt
    runs,           \* number of runs started so far
    collection,     \* collection github_trending_projects: name -> text
    collAvail,      \* per hunter: self.collection is not None
    insights,       \* collection market_insights: id -> document
    intel_list,     \* AutoPublisher.intel_list (session list)
    intel_images,   \* AutoPublisher.intel_images
    intel_sources,  \* AutoPublisher.intel_sources
    buffered        \* the latest save_and_buffer call and what it returned

painVars == <<store, vectors, vecAvail, pain_points, calls, last,
              again, prevStore, prevVectors>>
histVars == <<today, histFile, pc, mem, sel, run, runs, collection,
              collAvail>>
bufVars == <<insights, intel_list, intel_images, intel_sources, buffered>>
vars == <<painVars, histVars, bufVars>>

None == "None"

(***************************************************************************)
(* Bounds of the model.                                                    *)
(***************************************************************************)
MaxCalls == 3
MaxDay == 456           \* the clock stops 91 days after StartDay
MaxItems == 2           \* items one hunt() gets from the search API
MaxRuns == 2            \* runs started in SpecHist
Horizon == 31           \* days after a save on which the cooldown is asked

(***************************************************************************)
(* Inputs.                                                                 *)
(***************************************************************************)
Contents == {"c1", "c2", "c3"}
\* The content items the collectors submit: <<source, author, content>>
Candidates ==
    {<<"tw", "u1", "c1">>, <<"tw", "u1", "c2">>, <<"wb", "u2", "c3">>}
\* A Reddit item without text: `pain_data.get("content", "")`
EmptyCandidate == <<"rd", "u3", "">>
\* Caller-supplied ai_analysis texts: none, empty, two of one length and a
\* longer one
Analyses == {None, "", "a", "b", "abc"}
\* Caller-supplied <<tags, ai_analysis>> of a direct add_pain call
Extras == {<<{}, None>>, <<{"t1"}, "a">>}
NoThreshold == -1
Thresholds == {NoThreshold, 0, 50, 85}

\* Distance between the embeddings of two texts as the index reports it,
\* in thousandths: 149 gives similarity 0.87, 429 gives 0.70 and 250 gives
\* exactly 0.80; the empty text is far from every other (0.40).
Dist(a, b) ==
    IF a = b THEN 0
    ELSE CASE {a, b} = {"c1", "c2"} -> 149
           [] {a, b} = {"c1", "c3"} -> 429
           [] {a, b} = {"c2", "c3"} -> 250
           [] OTHER -> 1500

(***************************************************************************)
(* PainStore (src/intel/pain_store.py).                                    *)
(***************************************************************************)
SIMILARITY_THRESHOLD == 80

\* the id taken from the source alone
GenerateIdOfSource(content, source) == source \o ":"

\* sha256 of "source:content"; the author is not part of the id.
_generate_id(content, source) == source \o ":" \o content

\* "source_author_md5(content)"
generate_content_id(source, content, author) ==
    source \o "_" \o author \o "_" \o content

\* Tags found in the text by keyword: c1 and c2 complain that ChatGPT is
\* slow, c3 that Claude is wrong, c4 names no product and no keyword.
_infer_tags(content) ==
    CASE content = "c1" -> {"product:ChatGPT", "category:perf"}
      [] content = "c2" -> {"product:ChatGPT"}
      [] content = "c3" -> {"product:Claude", "category:accuracy"}
      [] OTHER -> {}

\* similarity = 1 / (1 + distance), as the fraction <<numerator, denominator>>
Similarity(distance) == <<1000, 1000 + distance>>

SimGT(similarity, threshold) == similarity[1] * 100 > threshold * similarity[2]

\* similarity >= threshold, threshold in hundredths
SimGE(similarity, threshold) == similarity[1] * 100 >= threshold * similarity[2]

\* query(query_texts=[content], n_results=1): the ids at minimum distance
\* (one of them is returned; which one on a tie is up to the index)
Nearest(vec, content) ==
    {i \in DOMAIN vec :
        \A j \in DOMAIN vec : Dist(vec[i], content) <= Dist(vec[j], content)}

Hits(vec, content) ==
    IF Nearest(vec, content) = {} THEN {None} ELSE Nearest(vec, content)

\* `threshold or self.SIMILARITY_THRESHOLD`
EffectiveThreshold(threshold) ==
    IF threshold = NoThreshold \/ threshold = 0
    THEN SIMILARITY_THRESHOLD ELSE threshold

\* qOk: the query does not raise; hit: the id the query returns (None when
\* the index is empty).  The result is the id of the row returned, or None.
find_similar(st, vec, avail, content, threshold, qOk, hit) ==
    IF ~avail THEN None
    ELSE IF ~qOk THEN None
    ELSE IF hit = None THEN None
    ELSE IF /\ SimGE(Similarity(Dist(vec[hit], content)),
                     EffectiveThreshold(threshold))
            /\ hit \in DOMAIN st
            /\ st[hit].is_primary = 1
         THEN hit
         ELSE None

Truthy(text) == text # None /\ text # ""

\* the merge in which the latest analysis wins
MergedRowLatestWins(row, new_content, new_source, new_tags, new_analysis) ==
    [row EXCEPT !.frequency = @ + 1, !.tags = @ \cup new_tags,
                !.ai_analysis = IF Truthy(new_analysis) THEN new_analysis
                                ELSE @]

\* the merge with the candidate's tags in place of the union
MergedRowNewTagsOnly(row, new_content, new_source, new_tags, new_analysis) ==
    [row EXCEPT !.frequency = @ + 1, !.tags = new_tags]

\* the merge without `primary.frequency += 1`
MergedRowNoCount(row, new_content, new_source, new_tags, new_analysis) ==
    [row EXCEPT !.tags = @ \cup new_tags]

MergedRow(row, new_content, new_source, new_tags, new_analysis) ==
    LET new_id == _generate_id(new_content, new_source)
        seen == {row.merged_from[k] : k \in 1..Len(row.merged_from)}
    IN [row EXCEPT
          !.frequency = @ + 1,
          !.tags = @ \cup new_tags,
          !.merged_from = IF new_id \notin seen THEN Append(@, new_id) ELSE @,
          !.ai_analysis =
              IF /\ Truthy(new_analysis)
                 /\ (~Truthy(@) \/ Len(new_analysis) > Len(@))
              THEN new_analysis ELSE @]

\* Result of a call: the table and the index after it, whether it raised,
\* the id of the row returned and the is_new flag.
Result(st, vec, raised, ret, is_new, outcome) ==
    [store |-> st, vectors |-> vec, raised |-> raised, ret |-> ret,
     is_new |-> is_new, outcome |-> outcome]

\* a new row that is not marked primary
NewRowNotPrimary(content, source, author, final_tags, ai_analysis) ==
    [content |-> content, source |-> source, author |-> author,
     tags |-> final_tags, frequency |-> 1, merged_from |-> <<>>,
     is_primary |-> 0, ai_analysis |-> ai_analysis]

\* PainPointModel(...) as add_pain builds it
NewRow(content, source, author, final_tags, ai_analysis) ==
    [content |-> content, source |-> source, author |-> author,
     tags |-> final_tags, frequency |-> 1, merged_from |-> <<>>,
     is_primary |-> 1, ai_analysis |-> ai_analysis]

\* the merge that also stores the candidate as a record of its own
MergeAndInsert(st, vec, primary, new_content, new_source, new_tags, new_analysis, commitOk) ==
    IF ~commitOk
    THEN Result(st, vec, TRUE, None, FALSE, "error")
    ELSE LET new_id == _generate_id(new_content, new_source)
         IN Result([i \in DOMAIN st \cup {new_id} |->
                       IF i = primary
                       THEN MergedRow(st[i], new_content, new_source,
                                      new_tags, new_analysis)
                       ELSE IF i \in DOMAIN st THEN st[i]
                       ELSE NewRow(new_content, new_source, None, new_tags,
                                   new_analysis)],
                   vec, FALSE, primary, FALSE, "similar")

_merge_pain(st, vec, primary, new_content, new_source, new_tags, new_analysis, commitOk) ==
    IF ~commitOk
    THEN Result(st, vec, TRUE, None, FALSE, "error")
    ELSE Result([st EXCEPT ![primary] =
                    MergedRow(@, new_content, new_source, new_tags,
                              new_analysis)],
                vec, FALSE, primary, FALSE, "similar")

\* the upsert under the text instead of the row's id
AddToVectorDbByText(vec, avail, id, content, upOk) ==
    IF ~avail THEN vec
    ELSE IF ~upOk THEN vec
    ELSE [i \in DOMAIN vec \cup {content} |->
             IF i = content THEN content ELSE vec[i]]

\* upOk: the upsert does not raise
_add_to_vector_db(vec, avail, id, content, upOk) ==
    IF ~avail THEN vec
    ELSE IF ~upOk THEN vec
    ELSE [i \in DOMAIN vec \cup {id} |-> IF i = id THEN content ELSE vec[i]]

\* add_pain with the new row put into the index before the commit
AddPainIndexFirst(st, vec, avail, content, source, author, tags, ai_analysis, auto_merge, qOk, hit, commitOk, upOk) ==
    LET final_tags == tags \cup _infer_tags(content)
        similar == IF auto_merge
                   THEN find_similar(st, vec, avail, content, NoThreshold,
                                     qOk, hit)
                   ELSE None
        pain_id == _generate_id(content, source)
        indexed == _add_to_vector_db(vec, avail, pain_id, content, upOk)
    IN IF similar # None
       THEN _merge_pain(st, vec, similar, content, source, final_tags,
                        ai_analysis, commitOk)
       ELSE IF pain_id \in DOMAIN st
       THEN IF ~commitOk
            THEN Result(st, vec, TRUE, None, FALSE, "error")
            ELSE Result([st EXCEPT ![pain_id] =
                            [@ EXCEPT !.frequency = @ + 1,
                                      !.tags = @ \cup final_tags]],
                        vec, FALSE, pain_id, FALSE, "exact")
       ELSE IF ~commitOk
            THEN Result(st, indexed, TRUE, None, FALSE, "error")
            ELSE Result([i \in DOMAIN st \cup {pain_id} |->
                            IF i = pain_id
                            THEN NewRow(content, source, author, final_tags,
                                        ai_analysis)
                            ELSE st[i]],
                        indexed, FALSE, pain_id, TRUE, "new")

add_pain(st, vec, avail, content, source, author, tags, ai_analysis, auto_merge, qOk, hit, commitOk, upOk) ==
    LET final_tags == tags \cup _infer_tags(content)
        similar == IF auto_merge
                   THEN find_similar(st, vec, avail, content, NoThreshold,
                                     qOk, hit)
                   ELSE None
        pain_id == _generate_id(content, source)
    IN IF similar # None
       THEN _merge_pain(st, vec, similar, content, source, final_tags,
                        ai_analysis, commitOk)
       ELSE IF pain_id \in DOMAIN st
       THEN IF ~commitOk
            THEN Result(st, vec, TRUE, None, FALSE, "error")
            ELSE Result([st EXCEPT ![pain_id] =
                            [@ EXCEPT !.frequency = @ + 1,
                                      !.tags = @ \cup final_tags]],
                        vec, FALSE, pain_id, FALSE, "exact")
       ELSE IF ~commitOk
            THEN Result(st, vec, TRUE, None, FALSE, "error")
            ELSE Result([i \in DOMAIN st \cup {pain_id} |->
                            IF i = pain_id
                            THEN NewRow(content, source, author, final_tags,
                                        ai_analysis)
                            ELSE st[i]],
                        _add_to_vector_db(vec, avail, pain_id, content, upOk),
                        FALSE, pain_id, TRUE, "new")

(***************************************************************************)
(* The similarity filter of GitHubTrendingHunter                           *)
(* (src/intel/github_trending.py).                                         *)
(***************************************************************************)
Projects == {"p1", "p2", "p3", "p4", "p5"}

\* project_text = "name description topics" of a project that does not
\* change between runs
ProjectText(name) == name \o " text"

\* Distance between two project texts as the index reports it, in
\* thousandths: 100 gives similarity 0.909, 176 gives 0.8503 and 177 gives
\* 0.8496.
ProjDist(a, b) ==
    IF a = b THEN 0
    ELSE CASE {a, b} = {ProjectText("p1"), ProjectText("p2")} -> 100
           [] {a, b} = {ProjectText("p2"), ProjectText("p3")} -> 176
           [] {a, b} = {ProjectText("p3"), ProjectText("p4")} -> 177
           [] OTHER -> 900

TRENDING_THRESHOLD == 85

MinOf(S) == CHOOSE m \in S : \A n \in S : m <= n

\* query(query_texts=[project_text], n_results=3): the distances of the (at
\* most) three nearest documents
QueryDistances(coll, text) ==
    LET k == IF Cardinality(DOMAIN coll) < 3
             THEN Cardinality(DOMAIN coll) ELSE 3
        near == CHOOSE N \in SUBSET DOMAIN coll :
                    /\ Cardinality(N) = k
                    /\ \A i \in N, j \in DOMAIN coll \ N :
                          ProjDist(coll[i], text) <= ProjDist(coll[j], text)
    IN {ProjDist(coll[i], text) : i \in near}

\* qOk: the query does not raise
_is_similar_in_chromadb(coll, avail, name, threshold, qOk) ==
    IF ~avail THEN FALSE
    ELSE IF ~qOk THEN FALSE
    ELSE IF QueryDistances(coll, ProjectText(name)) = {} THEN FALSE
    ELSE SimGE(Similarity(MinOf(QueryDistances(coll, ProjectText(name)))),
               threshold)

\* The id is "github_name_md5(name)": one document per project name.
\* addOk: neither get nor update/add raises
_add_to_chromadb(coll, avail, name, addOk) ==
    IF ~avail THEN coll
    ELSE IF ~addOk THEN coll
    ELSE [n \in DOMAIN coll \cup {name} |->
             IF n = name THEN ProjectText(name) ELSE coll[n]]

(***************************************************************************)
(* Recommendation history (src/intel/github_trending.py and                *)
(* src/intel/github_hunter.py, which repeat the same code).                *)
(***************************************************************************)
COOLDOWN_DAYS == 30
RETENTION_DAYS == 90
StartDay == 365         \* 2026-01-01, in days since 2025-01-01

MonthLengths == <<31, 28, 31, 30, 31, 30, 31, 31, 30, 31, 30, 31>>

RECURSIVE MonthDay(_, _)
MonthDay(n, m) ==
    IF n < MonthLengths[m] THEN <<m, n + 1>>
    ELSE MonthDay(n - MonthLengths[m], m + 1)

\* strftime("%Y-%m-%d") of day n (2025 to 2027, no leap year among them):
\* the zero-padded string, as <<year, month, day>>
DateStr(n) ==
    <<2025 + (n \div 365), MonthDay(n % 365, 1)[1], MonthDay(n % 365, 1)[2]>>

\* a >= b in place of a > b
StrGE(a, b) ==
    \/ a[1] > b[1]
    \/ a[1] = b[1] /\ a[2] > b[2]
    \/ a[1] = b[1] /\ a[2] = b[2] /\ a[3] >= b[3]

\* a > b on "YYYY-MM-DD" strings: character by character, which for
\* zero-padded fields is field by field
StrGT(a, b) ==
    \/ a[1] > b[1]
    \/ a[1] = b[1] /\ a[2] > b[2]
    \/ a[1] = b[1] /\ a[2] = b[2] /\ a[3] > b[3]

\* p.get("recommended_at", "2000-01-01"); <<>> stands for a missing key
RecAt(p) ==
    IF p.recommended_at = <<>> THEN <<2000, 1, 1>> ELSE p.recommended_at

NoHistory == <<>>

\* data/recommended_projects.json: "missing", "corrupt" (unreadable or not
\* JSON), "list" (JSON, but not an object), "noprojects" (an object without
\* the key "projects") or "json" (an object with the list `projects`)
FileOf(kind) == [kind |-> kind, projects |-> <<>>]
JsonFile(projects) == [kind |-> "json", projects |-> projects]

\* json.load gives a list: data.get raises AttributeError, which the
\* except clause (JSONDecodeError, IOError) does not catch
LoadRaises(file) == file.kind = "list"

\* the dict _load_history returns has the key "projects"
HasProjects(file) == file.kind # "noprojects"

\* recommended_history.get("projects", []) of the dict _load_history
\* returns
_load_history(file) ==
    IF file.kind = "json" THEN file.projects ELSE NoHistory

\* the comparison with the cutoff one day late
RecentlyRecommendedOneDayLess(projects, project_name, now) ==
    \E i \in 1..Len(projects) :
        /\ projects[i].name = project_name
        /\ StrGT(RecAt(projects[i]), DateStr(now - COOLDOWN_DAYS + 1))

_is_recently_recommended(projects, project_name, now) ==
    \E i \in 1..Len(projects) :
        /\ projects[i].name = project_name
        /\ StrGT(RecAt(projects[i]), DateStr(now - COOLDOWN_DAYS))

\* a new entry for every project, also for one that has an entry
RECURSIVE UpsertAlwaysAppend(_, _, _)
UpsertAlwaysAppend(projects, new_projects, date) ==
    IF new_projects = <<>> THEN projects
    ELSE UpsertAlwaysAppend(
             Append(projects,
                    [name |-> Head(new_projects).name, recommended_at |-> date,
                     stars |-> Head(new_projects).stars]),
             Tail(new_projects), date)

\* The loop of _save_history over the new projects
RECURSIVE Upsert(_, _, _)
Upsert(projects, new_projects, date) ==
    IF new_projects = <<>> THEN projects
    ELSE LET p == Head(new_projects)
             found == {i \in 1..Len(projects) : projects[i].name = p.name}
         IN IF found # {}
            THEN Upsert([projects EXCEPT
                            ![MinOf(found)] =
                                [@ EXCEPT !.recommended_at = date,
                                          !.stars = p.stars]],
                        Tail(new_projects), date)
            ELSE Upsert(Append(projects,
                               [name |-> p.name, recommended_at |-> date,
                                stars |-> p.stars]),
                        Tail(new_projects), date)

\* a retention shorter than the cooldown
KeptThreeWeeks(p, now) == StrGT(RecAt(p), DateStr(now - 21))

Kept(p, now) == StrGT(RecAt(p), DateStr(now - RETENTION_DAYS))

Prune(projects, now) == SelectSeq(projects, LAMBDA p : Kept(p, now))

\* self.recommended_history["projects"] after _save_history
SavedHistory(projects, new_projects, now) ==
    Prune(Upsert(projects, new_projects, DateStr(now)), now)

\* The file after the write: written, left as it was (open fails) or cut
\* short (the write fails after the file was truncated)
WriteOutcomes == {"ok", "unchanged", "corrupt"}
Written(file, projects, outcome) ==
    CASE outcome = "ok" -> JsonFile(projects)
      [] outcome = "unchanged" -> file
      [] outcome = "corrupt" -> FileOf("corrupt")

RECURSIVE AddAll(_, _, _, _)
AddAll(coll, avail, new_projects, addOk) ==
    IF new_projects = <<>> THEN coll
    ELSE AddAll(_add_to_chromadb(coll, avail, Head(new_projects).name,
                                 addOk),
                avail, Tail(new_projects), addOk)

\* select_projects: the projects that pass both filters, in the order of
\* the pool (every fetched project has today_stars = 0, so the stable sort
\* by growth keeps the order); qOk: the index queries do not raise
Passes(projects, coll, avail, p, now, qOk) ==
    /\ ~_is_recently_recommended(projects, p.name, now)
    /\ ~_is_similar_in_chromadb(coll, avail, p.name, TRENDING_THRESHOLD,
                                qOk)

Filtered(projects, coll, avail, pool, now, qOk) ==
    SelectSeq(pool, LAMBDA p : Passes(projects, coll, avail, p, now, qOk))

\* the selection that fills up from the filtered-out projects instead of
\* raising
SelectPadded(projects, coll, avail, pool, now, qOk) ==
    LET filtered_projects == Filtered(projects, coll, avail, pool, now, qOk)
    IN IF Len(pool) < 3 THEN <<>>
       ELSE IF Len(filtered_projects) < 3 THEN SubSeq(pool, 1, 3)
       ELSE SubSeq(filtered_projects, 1, 3)

\* <<brief 1, brief 2, deep dive>>, or <<>> for the ValueError
select_projects(projects, coll, avail, pool, now, qOk) ==
    LET filtered_projects == Filtered(projects, coll, avail, pool, now, qOk)
    IN IF Len(filtered_projects) < 3 THEN <<>>
       ELSE LET brief_projects == SubSeq(filtered_projects, 1, 2)
                remaining ==
                    SelectSeq(filtered_projects,
                              LAMBDA p : p # brief_projects[1]
                                         /\ p # brief_projects[2])
            IN Append(brief_projects,
                      IF remaining # <<>> THEN remaining[1]
                      ELSE filtered_projects[3])

KEYWORD_EXPANSION(keyword) ==
    CASE keyword = "ai" ->
            <<"artificial intelligence", "machine learning", "deep learning",
              "neural network">>
      [] keyword = "llm" ->
            <<"large language model", "gpt", "chatbot", "nlp", "transformer">>
      [] keyword = "agent" ->
            <<"ai agent", "autonomous agent", "llm agent", "multi-agent">>
      [] keyword = "rag" ->
            <<"retrieval augmented", "vector database", "embedding",
              "semantic search">>
      [] OTHER -> <<>>

fallback_keywords ==
    <<"llm", "agent", "rag", "automation", "langchain", "ml", "chatbot">>

FirstUntried(kws, tried) ==
    LET fresh == {i \in 1..Len(kws) :
                     \A j \in 1..Len(tried) : kws[i] # tried[j]}
    IN IF fresh = {} THEN None ELSE kws[MinOf(fresh)]

\* the retry that searches the same keyword again
NextKeywordSame(keyword, tried) == keyword

_get_next_keyword(keyword, tried) ==
    IF FirstUntried(KEYWORD_EXPANSION(keyword), tried) # None
    THEN FirstUntried(KEYWORD_EXPANSION(keyword), tried)
    ELSE FirstUntried(fallback_keywords, tried)

max_retries == 4

(***************************************************************************)
(* AutoPublisher.save_and_buffer (src/intel/auto_publisher.py).            *)
(***************************************************************************)
\* The items the hunts of AutoPublisher hand over: <<source, author, content>>
Intel == {<<"HackerNews", "Tech", "c1">>, <<"Twitter", "u1", "c1">>, <<"Twitter", "u1", "c2">>}
Tags == {"Trend", "AI"}
ImageLists == {<<>>, <<"img1">>}

NoSave == [op |-> "none", doc_id |-> None, ret |-> FALSE]

\* What a call leaves behind and returns
Buffered(coll, list, imgs, srcs, doc_id, ret) ==
    [insights |-> coll, intel_list |-> list, intel_images |-> imgs,
     intel_sources |-> srcs, doc_id |-> doc_id, ret |-> ret]

\* the call without the lookup of the id
SaveWithoutLookup(coll, list, imgs, srcs, source, author, content, tag, images, getOk, upOk) ==
    LET doc_id == generate_content_id(source, content, author)
    IN IF ~getOk \/ ~upOk
       THEN Buffered(coll, list, imgs, srcs, doc_id, FALSE)
       ELSE Buffered([i \in DOMAIN coll \cup {doc_id} |->
                         IF i = doc_id THEN content ELSE coll[i]],
                     Append(list, <<source, tag, author, content>>),
                     imgs \o images,
                     Append(srcs, [source |-> source, author |-> author,
                                   content |-> content, tag |-> tag,
                                   images |-> images]),
                     doc_id, TRUE)

\* getOk: collection.get does not raise; upOk: collection.upsert does not
\* raise.  An item of intel_list stands for the string
\* "[source](tag) @author: content".
save_and_buffer(coll, list, imgs, srcs, source, author, content, tag, images, getOk, upOk) ==
    LET doc_id == generate_content_id(source, content, author)
    IN IF ~getOk THEN Buffered(coll, list, imgs, srcs, doc_id, FALSE)
       ELSE IF doc_id \in DOMAIN coll
       THEN Buffered(coll, list, imgs, srcs, doc_id, FALSE)
       ELSE IF ~upOk THEN Buffered(coll, list, imgs, srcs, doc_id, FALSE)
       ELSE Buffered([i \in DOMAIN coll \cup {doc_id} |->
                         IF i = doc_id THEN content ELSE coll[i]],
                     Append(list, <<source, tag, author, content>>),
                     imgs \o images,
                     Append(srcs, [source |-> source, author |-> author,
                                   content |-> content, tag |-> tag,
                                   images |-> images]),
                     doc_id, TRUE)

(***************************************************************************)
(* Calls on the store.  `last` records the latest call and what it         *)
(* answered; `fuzzy` is what became of its index query ("off": none was    *)
(* made, "failed": it raised, "ok": it answered).  `again` is "no" unless  *)
(* the latest call and the one before it were add_pain calls with the same *)
(* (source, author, content) that both returned; it is then the outcome   *)
(* of the earlier of the two.                                              *)
(***************************************************************************)
NoCall ==
    [op |-> "none", content |-> None, source |-> None, author |-> None,
     tags |-> {}, threshold |-> NoThreshold, fuzzy |-> "off",
     hit |-> None, raised |-> FALSE, ret |-> None, is_new |-> FALSE,
     outcome |-> "none", saved |-> FALSE, analysis |-> None]

Fuzzy(avail, auto_merge, qOk) ==
    IF ~auto_merge \/ ~avail THEN "off"
    ELSE IF ~qOk THEN "failed"
    ELSE "ok"

Record(op, cand, tags, fuzzy, hit, r, saved) ==
    [op |-> op, content |-> cand[3], source |-> cand[1], author |-> cand[2],
     tags |-> tags, threshold |-> NoThreshold, fuzzy |-> fuzzy,
     hit |-> IF fuzzy = "ok" THEN hit ELSE None,
     raised |-> r.raised, ret |-> r.ret, is_new |-> r.is_new,
     outcome |-> r.outcome, saved |-> saved, analysis |-> None]

IsAdd(call) == call.op \in {"add_pain", "save_pain"} /\ ~call.raised

\* the same (source, author, content), and both or neither asked the index
\* (the index stays as it was built, so this is the same auto_merge)
SameInput(a, b) ==
    /\ a.content = b.content /\ a.source = b.source /\ a.author = b.author
    /\ (a.fuzzy = "off") = (b.fuzzy = "off")

\* Whether a call to the index succeeds: either way when the index is
\* used, and not asked (TRUE) when it is not.
Outcomes(used) == IF used THEN BOOLEAN ELSE {TRUE}

\* PainStore.add_pain called directly
AddPain ==
    /\ calls < MaxCalls
    /\ \E cand \in Candidates, extra \in Extras, auto_merge \in BOOLEAN,
          commitOk \in BOOLEAN :
       \E qOk \in Outcomes(vecAvail /\ auto_merge),
          upOk \in Outcomes(vecAvail) :
       \E hit \in IF qOk THEN Hits(vectors, cand[3]) ELSE {None} :
          LET r == add_pain(store, vectors, vecAvail, cand[3], cand[1],
                            cand[2], extra[1], extra[2], auto_merge, qOk,
                            hit, commitOk, upOk)
          IN /\ store' = r.store
             /\ vectors' = r.vectors
             /\ last' = [Record("add_pain", cand,
                                extra[1] \cup _infer_tags(cand[3]),
                                Fuzzy(vecAvail, auto_merge, qOk), hit, r,
                                FALSE)
                            EXCEPT !.analysis = extra[2]]
    /\ again' = IF IsAdd(last) /\ IsAdd(last') /\ SameInput(last, last')
                 THEN last.outcome ELSE "no"
    /\ prevStore' = store
    /\ prevVectors' = vectors
    /\ calls' = calls + 1
    /\ UNCHANGED <<vecAvail, pain_points, histVars, bufVars>>

\* PainStore.add_pain called with an ai_analysis of some length, or none
AddAnalysed ==
    /\ calls < MaxCalls
    /\ \E cand \in Candidates, analysis \in Analyses, commitOk \in BOOLEAN :
       \E qOk \in Outcomes(vecAvail), upOk \in Outcomes(vecAvail) :
       \E hit \in IF qOk THEN Hits(vectors, cand[3]) ELSE {None} :
          LET r == add_pain(store, vectors, vecAvail, cand[3], cand[1],
                            cand[2], {}, analysis, TRUE, qOk, hit, commitOk,
                            upOk)
          IN /\ store' = r.store
             /\ vectors' = r.vectors
             /\ last' = [Record("add_pain", cand, _infer_tags(cand[3]),
                                Fuzzy(vecAvail, TRUE, qOk), hit, r, FALSE)
                            EXCEPT !.analysis = analysis]
    /\ again' = IF IsAdd(last) /\ IsAdd(last') /\ SameInput(last, last')
                 THEN last.outcome ELSE "no"
    /\ prevStore' = store
    /\ prevVectors' = vectors
    /\ calls' = calls + 1
    /\ UNCHANGED <<vecAvail, pain_points, histVars, bufVars>>

\* PainRadar.save_pain; radarOk: the upsert into user_pain_points does not
\* raise
SavePain ==
    /\ calls < MaxCalls
    /\ \E cand \in Candidates, commitOk \in BOOLEAN, radarOk \in BOOLEAN :
       \E qOk \in Outcomes(vecAvail), upOk \in Outcomes(vecAvail) :
       \E hit \in IF qOk THEN Hits(vectors, cand[3]) ELSE {None} :
          LET r == add_pain(store, vectors, vecAvail, cand[3], cand[1],
                            cand[2], {}, None, TRUE, qOk, hit, commitOk, upOk)
              saved == ~r.raised /\ radarOk
          IN /\ store' = r.store
             /\ vectors' = r.vectors
             /\ pain_points' =
                   IF saved THEN Append(pain_points, r.ret) ELSE pain_points
             /\ last' = Record("save_pain", cand, _infer_tags(cand[3]),
                               Fuzzy(vecAvail, TRUE, qOk), hit, r, saved)
    /\ again' = IF IsAdd(last) /\ IsAdd(last') /\ SameInput(last, last')
                 THEN last.outcome ELSE "no"
    /\ prevStore' = store
    /\ prevVectors' = vectors
    /\ calls' = calls + 1
    /\ UNCHANGED <<vecAvail, histVars, bufVars>>

\* PainRadar.save_pain as scan_reddit calls it for an item without text
SaveEmpty ==
    /\ calls < MaxCalls
    /\ \E commitOk \in BOOLEAN, radarOk \in BOOLEAN :
       \E qOk \in Outcomes(vecAvail), upOk \in Outcomes(vecAvail) :
       \E hit \in IF qOk THEN Hits(vectors, EmptyCandidate[3]) ELSE {None} :
          LET r == add_pain(store, vectors, vecAvail, EmptyCandidate[3],
                            EmptyCandidate[1], EmptyCandidate[2], {}, None,
                            TRUE, qOk, hit, commitOk, upOk)
              saved == ~r.raised /\ radarOk
          IN /\ store' = r.store
             /\ vectors' = r.vectors
             /\ pain_points' =
                   IF saved THEN Append(pain_points, r.ret) ELSE pain_points
             /\ last' = Record("save_pain", EmptyCandidate,
                               _infer_tags(EmptyCandidate[3]),
                               Fuzzy(vecAvail, TRUE, qOk), hit, r, saved)
    /\ again' = IF IsAdd(last) /\ IsAdd(last') /\ SameInput(last, last')
                 THEN last.outcome ELSE "no"
    /\ prevStore' = store
    /\ prevVectors' = vectors
    /\ calls' = calls + 1
    /\ UNCHANGED <<vecAvail, histVars, bufVars>>

\* PainStore.find_similar called directly with a threshold
FindSimilar ==
    /\ calls < MaxCalls
    /\ \E content \in Contents, threshold \in Thresholds :
       \E qOk \in Outcomes(vecAvail) :
       \E hit \in IF qOk THEN Hits(vectors, content) ELSE {None} :
          last' = [NoCall EXCEPT
                     !.op = "find_similar", !.content = content,
                     !.threshold = threshold,
                     !.fuzzy = Fuzzy(vecAvail, TRUE, qOk),
                     !.hit = hit,
                     !.ret = find_similar(store, vectors, vecAvail, content,
                                          threshold, qOk, hit),
                     !.outcome = "query"]
    /\ again' = "no"
    /\ prevStore' = store
    /\ prevVectors' = vectors
    /\ calls' = calls + 1
    /\ UNCHANGED <<store, vectors, vecAvail, pain_points,
                   histVars, bufVars>>

\* GitHubTrendingHunter._is_similar_in_chromadb asked about one project
IsSimilar ==
    /\ calls < MaxCalls
    /\ \E name \in Projects :
       \E qOk \in Outcomes(collAvail) :
          last' = [NoCall EXCEPT
                     !.op = "is_similar", !.content = name,
                     !.threshold = TRENDING_THRESHOLD,
                     !.fuzzy = Fuzzy(collAvail, TRUE, qOk),
                     !.ret =
                         IF _is_similar_in_chromadb(collection, collAvail,
                                                    name, TRENDING_THRESHOLD,
                                                    qOk)
                         THEN "similar" ELSE None,
                     !.outcome = "query"]
    /\ again' = "no"
    /\ prevStore' = store
    /\ prevVectors' = vectors
    /\ calls' = calls + 1
    /\ UNCHANGED <<store, vectors, vecAvail, pain_points, histVars, bufVars>>

EmptyFn == [i \in {} |-> None]

\* AutoPublisher.__init__ on an empty market_insights collection
InitBuffer ==
    /\ insights = EmptyFn
    /\ intel_list = <<>>
    /\ intel_images = <<>>
    /\ intel_sources = <<>>
    /\ buffered = NoSave

InitPain ==
    /\ InitBuffer
    /\ store = EmptyFn
    /\ vectors = EmptyFn
    /\ vecAvail \in BOOLEAN
    /\ pain_points = <<>>
    /\ calls = 0
    /\ last = NoCall
    /\ again = "no"
    /\ prevStore = EmptyFn
    /\ prevVectors = EmptyFn

(***************************************************************************)
(* Runs of the two hunters.  A run happens within one day: the clock moves *)
(* between runs.                                                           *)
(***************************************************************************)
Hunters == {"trending", "hunter"}
Resting == {"idle", "done", "failed"}

\* stargazers_count the API reports for a project on a day
Stars(name, now) ==
    (CASE name = "p1" -> 900 [] name = "p2" -> 800 [] name = "p3" -> 700
       [] name = "p4" -> 600 [] name = "p5" -> 550 [] OTHER -> 510)
    + (now - StartDay)

Project(name, now) == [name |-> name, stars |-> Stars(name, now)]

\* What fetch_trending may return: distinct projects, highest stars first
Pools(now) ==
    {<<Project("p1", now), Project("p2", now), Project("p3", now)>>,
     <<Project("p1", now), Project("p4", now), Project("p5", now),
       Project("p6", now)>>}

\* full_name of the items the search API may return to GitHubHunter
HunterItems == {"p1", "p4"}

NamesOf(projects) == {projects[i].name : i \in 1..Len(projects)}

FreshRun ==
    [keyword |-> "ai", tried_keywords |-> <<"ai">>, retry |-> 0,
     skipped_similar |-> {}, items |-> 0, has_projects |-> TRUE]

\* No hunter object exists: the state between two processes
NoHunter ==
    [pc |-> [h \in Hunters |-> "idle"], mem |-> [h \in Hunters |-> NoHistory],
     sel |-> [h \in Hunters |-> <<>>]]

\* GitHubTrendingHunter.__init__, in a new process
TrendingConstruct ==
    /\ pc' = [NoHunter.pc EXCEPT
                 !["trending"] = IF LoadRaises(histFile) THEN "failed"
                                 ELSE "ready"]
    /\ mem' = [NoHunter.mem EXCEPT !["trending"] = _load_history(histFile)]
    /\ sel' = NoHunter.sel
    /\ run' = [FreshRun EXCEPT !.has_projects = HasProjects(histFile)]
    /\ collAvail' \in BOOLEAN
    /\ UNCHANGED <<today, histFile, collection, painVars, bufVars>>

\* One pass of the retry loop of GitHubTrendingHunter.run: fetch_trending,
\* select_projects and, on a shortfall, the switch to the next keyword
TrendingSelect ==
    /\ pc["trending"] = "ready"
    /\ \E pool \in Pools(today) :
       \E qOk \in Outcomes(collAvail) :
          LET chosen == select_projects(mem["trending"], collection,
                                        collAvail, pool, today, qOk)
              next_keyword == _get_next_keyword(run.keyword,
                                                run.tried_keywords)
              seen == [run EXCEPT
                         !.skipped_similar =
                             {n \in NamesOf(pool) :
                                 /\ ~_is_recently_recommended(
                                        mem["trending"], n, today)
                                 /\ _is_similar_in_chromadb(
                                        collection, collAvail, n,
                                        TRENDING_THRESHOLD, qOk)}]
          IN IF chosen # <<>>
             THEN /\ sel' = [sel EXCEPT !["trending"] = chosen]
                  /\ pc' = [pc EXCEPT !["trending"] = "selected"]
                  /\ run' = seen
             ELSE /\ sel' = sel
                  /\ IF run.retry < max_retries - 1 /\ next_keyword # None
                     THEN /\ pc' = pc
                          /\ run' = [seen EXCEPT
                                       !.keyword = next_keyword,
                                       !.tried_keywords =
                                           Append(@, next_keyword),
                                       !.retry = @ + 1]
                     ELSE /\ pc' = [pc EXCEPT !["trending"] = "failed"]
                          /\ run' = seen
    /\ UNCHANGED <<runs, today, histFile, mem, collection, collAvail, painVars, bufVars>>

\* the run that records its selection before the article exists
GenerateAfterRecording ==
    /\ pc["trending"] = "selected"
    /\ \E ok \in BOOLEAN :
          pc' = [pc EXCEPT !["trending"] = IF ok THEN "generated" ELSE "failed"]
    /\ mem' = [mem EXCEPT !["trending"] =
                  SavedHistory(@, sel["trending"], today)]
    /\ histFile' = Written(histFile,
                           SavedHistory(mem["trending"], sel["trending"],
                                        today),
                           "ok")
    /\ UNCHANGED <<runs, today, sel, run, collection, collAvail, painVars, bufVars>>

\* generate_article returns or raises
TrendingGenerate ==
    /\ pc["trending"] = "selected"
    /\ \E ok \in BOOLEAN :
          pc' = [pc EXCEPT !["trending"] = IF ok THEN "generated" ELSE "failed"]
    /\ UNCHANGED <<runs, today, histFile, mem, sel, run, collection, collAvail,
                   painVars, bufVars>>

\* _save_and_push: the article and its metadata are written (or the write
\* raises), then _save_history(selected_projects), which raises KeyError
\* when the loaded history has no "projects"
TrendingSave ==
    /\ pc["trending"] = "generated"
    /\ \E articleOk \in BOOLEAN, outcome \in WriteOutcomes :
       \E addOk \in Outcomes(collAvail) :
          IF ~articleOk \/ ~run.has_projects
          THEN /\ pc' = [pc EXCEPT !["trending"] = "failed"]
               /\ UNCHANGED <<mem, histFile, collection>>
          ELSE /\ pc' = [pc EXCEPT !["trending"] = "done"]
               /\ mem' = [mem EXCEPT !["trending"] =
                             SavedHistory(@, sel["trending"], today)]
               /\ histFile' =
                     Written(histFile,
                             SavedHistory(mem["trending"], sel["trending"],
                                          today),
                             outcome)
               /\ collection' = AddAll(collection, collAvail,
                                       sel["trending"], addOk)
    /\ UNCHANGED <<runs, today, sel, run, collAvail, painVars, bufVars>>

\* GitHubHunter.__init__ (its _init_chromadb has no fallback: the run only
\* starts when the index is there)
HunterConstruct ==
    /\ pc' = [NoHunter.pc EXCEPT
                 !["hunter"] = IF LoadRaises(histFile) THEN "failed"
                               ELSE "hunting"]
    /\ mem' = [NoHunter.mem EXCEPT !["hunter"] = _load_history(histFile)]
    /\ sel' = NoHunter.sel
    /\ run' = [FreshRun EXCEPT !.has_projects = HasProjects(histFile)]
    /\ UNCHANGED <<today, histFile, collection, collAvail, painVars, bufVars>>

\* One item of one search result in GitHubHunter.hunt; fresh: the item was
\* updated within days_since_update; upOk: the upsert in save_to_db does
\* not raise
HuntItem ==
    /\ pc["hunter"] = "hunting"
    /\ run.items < MaxItems
    /\ \E name \in HunterItems, fresh \in BOOLEAN, upOk \in BOOLEAN :
          sel' = [sel EXCEPT !["hunter"] =
                     IF /\ ~_is_recently_recommended(mem["hunter"], name,
                                                     today)
                        /\ fresh
                        /\ upOk
                     THEN Append(@, Project(name, today))
                     ELSE @]
    /\ run' = [run EXCEPT !.items = @ + 1]
    /\ UNCHANGED <<runs, today, histFile, pc, mem, collection, collAvail,
                   painVars, bufVars>>

\* GitHubHunter.generate_report: nothing when no project was archived,
\* else the report and _save_history(), which raises KeyError when the
\* loaded history has no "projects"
HunterReport ==
    /\ pc["hunter"] = "hunting"
    /\ IF sel["hunter"] = <<>>
       THEN /\ pc' = [pc EXCEPT !["hunter"] = "idle"]
            /\ UNCHANGED <<mem, histFile>>
       ELSE IF ~run.has_projects
       THEN /\ pc' = [pc EXCEPT !["hunter"] = "failed"]
            /\ UNCHANGED <<mem, histFile>>
       ELSE \E outcome \in WriteOutcomes :
            /\ pc' = [pc EXCEPT !["hunter"] = "done"]
            /\ mem' = [mem EXCEPT !["hunter"] =
                          SavedHistory(@, sel["hunter"], today)]
            /\ histFile' =
                  Written(histFile,
                          SavedHistory(mem["hunter"], sel["hunter"], today),
                          outcome)
    /\ UNCHANGED <<runs, today, sel, run, collection, collAvail, painVars, bufVars>>

AllResting == \A h \in Hunters : pc[h] \in Resting

\* Time passes between runs: the last process has exited
DaySteps == {29, 30, 31}
Advance ==
    /\ AllResting
    /\ \E k \in DaySteps :
          /\ today + k <= MaxDay
          /\ today' = today + k
    /\ pc' = NoHunter.pc
    /\ mem' = NoHunter.mem
    /\ sel' = NoHunter.sel
    /\ run' = FreshRun
    /\ UNCHANGED <<runs, histFile, collection, collAvail, painVars, bufVars>>

\* A day passes before the first run
Tick ==
    /\ runs = 0
    /\ today + 1 <= MaxDay
    /\ today' = today + 1
    /\ UNCHANGED <<histFile, pc, mem, sel, run, runs, collection, collAvail,
                   painVars, bufVars>>

\* Runs one after the other: a hunter is built when no other is running
StartTrending ==
    AllResting /\ runs < MaxRuns /\ runs' = runs + 1 /\ TrendingConstruct
StartHunter ==
    AllResting /\ runs < MaxRuns /\ runs' = runs + 1 /\ HunterConstruct

InitHistBase ==
    /\ today = StartDay
    /\ pc = NoHunter.pc
    /\ mem = NoHunter.mem
    /\ sel = NoHunter.sel
    /\ run = FreshRun
    /\ runs = 0

InitHist ==
    /\ InitHistBase
    /\ histFile = FileOf("missing")
    /\ collection = EmptyFn
    /\ collAvail = TRUE

Init == InitPain /\ InitHist

NextPain == AddPain \/ SavePain

SpecPain == Init /\ [][NextPain]_vars

\* One of the hunts of AutoPublisher hands an item to save_and_buffer
SaveAndBuffer ==
    /\ calls < MaxCalls
    /\ \E item \in Intel, tag \in Tags, images \in ImageLists,
          getOk \in BOOLEAN, upOk \in BOOLEAN :
          LET r == save_and_buffer(insights, intel_list, intel_images,
                                   intel_sources, item[1], item[2], item[3],
                                   tag, images, getOk, upOk)
          IN /\ insights' = r.insights
             /\ intel_list' = r.intel_list
             /\ intel_images' = r.intel_images
             /\ intel_sources' = r.intel_sources
             /\ buffered' = [op |-> "save_and_buffer", doc_id |-> r.doc_id,
                             ret |-> r.ret]
    /\ calls' = calls + 1
    /\ UNCHANGED <<store, vectors, vecAvail, pain_points, last, again,
                   prevStore, prevVectors, histVars>>

NextBuffer == SaveAndBuffer

SpecBuffer == Init /\ [][NextBuffer]_vars

\* Submissions that carry an analysis
NextAnalysis == AddAnalysed

SpecAnalysis == Init /\ [][NextAnalysis]_vars

\* The collector's intake, items without text included
NextIntake == SavePain \/ SaveEmpty

SpecIntake == Init /\ [][NextIntake]_vars

NextHist ==
    \/ StartTrending \/ TrendingSelect \/ TrendingGenerate \/ TrendingSave
    \/ StartHunter \/ HuntItem \/ HunterReport
    \/ Advance

SpecHist == Init /\ [][NextHist]_vars

\* Runs on any one day of a quarter, over a history file that earlier runs
\* left
Histories ==
    {FileOf("missing"), FileOf("corrupt"), FileOf("list"),
     FileOf("noprojects"),
     JsonFile(<<[name |-> "p1", recommended_at |-> DateStr(StartDay),
                 stars |-> Stars("p1", StartDay)]>>),
     JsonFile(<<[name |-> "p4", recommended_at |-> DateStr(StartDay - 45),
                 stars |-> Stars("p4", StartDay - 45)],
                [name |-> "p1", recommended_at |-> DateStr(StartDay),
                 stars |-> Stars("p1", StartDay)]>>)}

InitDays ==
    /\ InitPain
    /\ InitHistBase
    /\ histFile \in Histories
    /\ collection = EmptyFn
    /\ collAvail = TRUE

\* one run, on the day the clock has reached
FirstTrending == runs = 0 /\ StartTrending
FirstHunter == runs = 0 /\ StartHunter

NextDays ==
    \/ Tick
    \/ FirstTrending \/ TrendingSelect \/ TrendingGenerate \/ TrendingSave
    \/ FirstHunter \/ HuntItem \/ HunterReport

SpecDays == InitDays /\ [][NextDays]_vars

\* GitHubTrendingHunter.__init__ in a process of its own, whatever the other
\* collector is doing
JoinTrending ==
    /\ pc["trending"] = "idle"
    /\ runs < MaxRuns
    /\ runs' = runs + 1
    /\ pc' = [pc EXCEPT !["trending"] = IF LoadRaises(histFile) THEN "failed"
                                        ELSE "ready"]
    /\ mem' = [mem EXCEPT !["trending"] = _load_history(histFile)]
    /\ sel' = [sel EXCEPT !["trending"] = <<>>]
    /\ run' = [run EXCEPT !.keyword = FreshRun.keyword,
                          !.tried_keywords = FreshRun.tried_keywords,
                          !.retry = FreshRun.retry,
                          !.skipped_similar = FreshRun.skipped_similar]
    /\ collAvail' \in BOOLEAN
    /\ UNCHANGED <<today, histFile, collection, painVars, bufVars>>

\* GitHubHunter.__init__ in a process of its own
JoinHunter ==
    /\ pc["hunter"] = "idle"
    /\ runs < MaxRuns
    /\ runs' = runs + 1
    /\ pc' = [pc EXCEPT !["hunter"] = IF LoadRaises(histFile) THEN "failed"
                                      ELSE "hunting"]
    /\ mem' = [mem EXCEPT !["hunter"] = _load_history(histFile)]
    /\ sel' = [sel EXCEPT !["hunter"] = <<>>]
    /\ run' = [run EXCEPT !.items = FreshRun.items]
    /\ UNCHANGED <<today, histFile, collection, collAvail, painVars, bufVars>>

\* The two collectors as processes that share recommended_projects.json
\* and run at the same time, their steps interleaved
NextShared ==
    \/ JoinTrending \/ TrendingSelect \/ TrendingGenerate \/ TrendingSave
    \/ JoinHunter \/ HuntItem \/ HunterReport

SpecShared == Init /\ [][NextShared]_vars

\* The two similarity gates on their own: the pain store filled by
\* save_pain, and the projects index as earlier runs of the hunter left it
\* (one document per project recommended so far).
InitGate ==
    /\ InitPain
    /\ InitHistBase
    /\ histFile = FileOf("missing")
    /\ collAvail = TRUE
    /\ \E S \in {{}, {"p3"}, {"p1", "p5"}} :
          collection = [n \in S |-> ProjectText(n)]

NextGate == SavePain \/ FindSimilar \/ IsSimilar

SpecGate == InitGate /\ [][NextGate]_vars

(***************************************************************************)
(* Properties of the record store.                                         *)
(***************************************************************************)
Fingerprint(call) == _generate_id(call.content, call.source)

CountedOnce ==
    /\ ~last.is_new
    /\ DOMAIN store = DOMAIN prevStore
    /\ store[last.ret].frequency = prevStore[last.ret].frequency + 1

\* C1: the second of two add_pain calls in a row with the same
\* (source, author, content) returns is_new = False, adds no record and
\* raises the frequency of the record it returns by exactly one.
C1_Idempotent == again # "no" => CountedOnce

\* C2: when a record with the candidate's own id is in the store, add_pain
\* resolves to that record and never merges the candidate into another one.
C2_ExactFirst ==
    (IsAdd(last) /\ Fingerprint(last) \in DOMAIN prevStore)
        => last.ret = Fingerprint(last)

\* C8: find_similar with a threshold passed by the caller returns the
\* closest record iff its similarity 1/(1+d) is >= that threshold.
C8_ThresholdDecides ==
    (/\ last.op = "find_similar"
     /\ last.fuzzy = "ok"
     /\ last.hit # None
     /\ last.threshold # NoThreshold)
        => (last.ret = last.hit <=>
               100000 >= last.threshold
                           * (1000 + Dist(vectors[last.hit], last.content)))

\* C9: the gate classifies by the minimum distance d: a pain point is
\* merged into the closest record iff 1/(1+d) >= 0.80, i.e. iff d <= 0.25
\* (its frequency goes up by one), and otherwise gets its own record (a new
\* one has frequency 1); a project is a duplicate iff the least distance to
\* a stored project gives 1/(1+d) >= 0.85, i.e. iff 17 d <= 3.
C9_SimilarityGate ==
    /\ (last.op = "save_pain" /\ ~last.raised /\ last.fuzzy = "ok"
            /\ last.hit # None)
         => IF 4 * Dist(prevVectors[last.hit], last.content) <= 1000
            THEN /\ last.outcome = "similar"
                 /\ last.ret = last.hit
                 /\ CountedOnce
            ELSE /\ last.outcome \in {"exact", "new"}
                 /\ last.ret = Fingerprint(last)
                 /\ last.is_new => /\ last.ret \notin DOMAIN prevStore
                                   /\ store[last.ret].frequency = 1
    /\ (last.op = "is_similar" /\ last.fuzzy = "ok"
            /\ DOMAIN collection # {})
         => (last.ret = "similar" <=>
               \E n \in DOMAIN collection :
                  /\ \A m \in DOMAIN collection :
                        ProjDist(collection[n], ProjectText(last.content))
                          <= ProjDist(collection[m], ProjectText(last.content))
                  /\ 17 * ProjDist(collection[n], ProjectText(last.content))
                        <= 3000)

C9_Witness ==
    /\ last.op = "save_pain"
    /\ last.outcome = "similar"
    /\ Dist(prevVectors[last.hit], last.content) = 149
    /\ store[last.ret].frequency = 2

\* C10: a failing or missing vector index never fails the ingestion: when
\* the record store accepts the row, save_pain reports the item as saved.
C10_IndexFailureNotFatal ==
    (last.op = "save_pain" /\ ~last.raised)
        => (last.ret \in DOMAIN store /\ last.saved)

(***************************************************************************)
(* Properties of the recommendation history.                               *)
(***************************************************************************)
RECURSIVE DaysBefore(_)
DaysBefore(m) == IF m = 1 THEN 0 ELSE DaysBefore(m - 1) + MonthLengths[m - 1]

\* The day a "YYYY-MM-DD" string names, in days since 2025-01-01
DayOf(date) == (date[1] - 2025) * 365 + DaysBefore(date[2]) + date[3] - 1

EntriesOf(projects, n) == {k \in 1..Len(projects) : projects[k].name = n}

Saves(h) == pc[h] \in {"generated", "hunting"} /\ pc'[h] = "done"

\* C3: a project that a run selects (select_projects) or archives (hunt)
\* has no entry in the history file dated less than 30 days before the
\* day of the run.
C3_CooldownAcrossRuns ==
    [][\A h \in Hunters :
          \A i \in (Len(sel[h]) + 1)..Len(sel'[h]) :
             \A k \in EntriesOf(_load_history(histFile), sel'[h][i].name) :
                today >= DayOf(_load_history(histFile)[k].recommended_at) + 30
      ]_vars

C3_Witness ==
    /\ pc["trending"] = "selected"
    /\ "p1" \notin NamesOf(sel["trending"])
    /\ "p4" \in NamesOf(sel["trending"])
    /\ \E k \in EntriesOf(_load_history(histFile), "p1") :
          _load_history(histFile)[k].recommended_at = DateStr(today - 29)

\* C4: for the history a hunter has loaded, a project is in cooldown today
\* iff it has an entry dated day d with d <= today <= d+29: not on d+30 or
\* later, and never without an entry.
C4_CooldownBoundary ==
    \A h \in Hunters : \A n \in Projects :
       _is_recently_recommended(mem[h], n, today)
          <=> \E k \in EntriesOf(mem[h], n) :
                 today < DayOf(mem[h][k].recommended_at) + 30

C4_Witness ==
    /\ pc["hunter"] = "hunting"
    /\ \E i \in 1..Len(sel["hunter"]) :
          \E k \in EntriesOf(mem["hunter"], sel["hunter"][i].name) :
             mem["hunter"][k].recommended_at = DateStr(today - 30)

\* C5: a project that is in the index and whose history entry is 30 or
\* more days old is not turned down by the similarity filter of
\* select_projects.
C5_EligibleAfterCooldown ==
    \A n \in DOMAIN collection :
       (\E k \in EntriesOf(mem["trending"], n) :
           today >= DayOf(mem["trending"][k].recommended_at) + 30)
          => n \notin run.skipped_similar

\* C6: _save_history keeps every entry dated at most 90 days before today
\* and leaves no entry dated more than 90 days before today.
C6_PruneWindow ==
    [][\A h \in Hunters :
          Saves(h)
             => /\ \A k \in 1..Len(mem[h]) :
                      today - DayOf(mem[h][k].recommended_at) <= 90
                         => EntriesOf(mem'[h], mem[h][k].name) # {}
                /\ \A j \in 1..Len(mem'[h]) :
                      today - DayOf(mem'[h][j].recommended_at) <= 90]_vars

\* C7: on the day of the save and on each of the Horizon days after it, the
\* history that _save_history leaves answers the cooldown question for
\* every project as the same history would without the prune.
C7_PruneNeverFreesEarly ==
    [][\A h \in Hunters :
          Saves(h)
             => \A n \in Projects : \A t \in today..(today + Horizon) :
                   _is_recently_recommended(mem'[h], n, t)
                     <=> _is_recently_recommended(
                             Upsert(mem[h], sel[h], DateStr(today)), n, t)
      ]_vars

\* an entry of the file the run loaded is gone from the history the run
\* saved (the write of the file failed, so the file still shows it)
C7_Witness ==
    /\ pc["hunter"] = "done"
    /\ \E k \in 1..Len(_load_history(histFile)) :
          EntriesOf(mem["hunter"], _load_history(histFile)[k].name) = {}

\* C11: the history _save_history leaves has at most one entry per project
\* name, and the entry of every project of the run carries today's date
\* and the star count of this recommendation.
C11_UpsertNeverDuplicates ==
    [][\A h \in Hunters :
          Saves(h)
             => /\ \A n \in Projects : Cardinality(EntriesOf(mem'[h], n)) <= 1
                /\ \A i \in 1..Len(sel[h]) :
                      \E k \in EntriesOf(mem'[h], sel[h][i].name) :
                         /\ mem'[h][k].recommended_at = DateStr(today)
                         /\ mem'[h][k].stars = sel[h][i].stars]_vars

\* p1 recommended again: the saved history has today's entry where the file
\* (whose write failed) still shows the earlier one
C11_Witness ==
    /\ pc["hunter"] = "done"
    /\ \E k \in EntriesOf(mem["hunter"], "p1") :
          \E j \in EntriesOf(_load_history(histFile), "p1") :
             /\ mem["hunter"][k].recommended_at = DateStr(today)
             /\ _load_history(histFile)[j].recommended_at # DateStr(today)
             /\ mem["hunter"][k].stars # _load_history(histFile)[j].stars

(***************************************************************************)
(* Properties of the record store, step by step.                           *)
(***************************************************************************)
\* The step is an add_pain call that returned the existing record id
Absorbed(id) ==
    /\ calls' = calls + 1
    /\ IsAdd(last')
    /\ last'.outcome \in {"similar", "exact"}
    /\ last'.ret = id

\* C12: no record is ever removed; a record starts with frequency 1, and a
\* step adds exactly 1 to the frequency of the record that absorbed a
\* candidate and nothing to any other, so that the frequency is 1 + the
\* number of merges and never below 1.
C12_FrequencyCountsMerges ==
    [][/\ DOMAIN store \subseteq DOMAIN store'
       /\ \A id \in DOMAIN store' :
             /\ store'[id].frequency >= 1
             /\ store'[id].frequency =
                   IF id \notin DOMAIN store THEN 1
                   ELSE IF Absorbed(id) THEN store[id].frequency + 1
                   ELSE store[id].frequency]_vars

C12_Witness ==
    /\ last.outcome = "similar"
    /\ prevStore[last.ret].frequency = 2
    /\ store[last.ret].frequency = 3

\* C13: the record that absorbed a candidate (fuzzy merge or exact hit) has
\* as tags the union of the tags it had with the candidate's tags, the
\* caller's and the inferred ones.
C13_MergeUnion ==
    (IsAdd(last) /\ last.outcome \in {"similar", "exact"})
        => store[last.ret].tags = prevStore[last.ret].tags \cup last.tags

\* both sides bring a tag the other has not, and they share one
C13_Witness ==
    /\ IsAdd(last)
    /\ last.outcome = "similar"
    /\ last.tags \ prevStore[last.ret].tags # {}
    /\ prevStore[last.ret].tags \ last.tags # {}
    /\ prevStore[last.ret].tags \cap last.tags # {}
    /\ store[last.ret].tags = prevStore[last.ret].tags \cup last.tags

Primaries(st) == {id \in DOMAIN st : st[id].is_primary = 1}

\* C14: a merge inserts no record, deletes none, leaves every record but the
\* matched one as it was, and the matched record stays primary: the set of
\* primary records is the same before and after.
C14_MergeFrame ==
    (IsAdd(last) /\ last.outcome = "similar")
        => /\ DOMAIN store = DOMAIN prevStore
           /\ \A id \in DOMAIN store \ {last.ret} : store[id] = prevStore[id]
           /\ store[last.ret].is_primary = 1
           /\ Primaries(store) = Primaries(prevStore)

\* a merge into one of two stored records, of a candidate that is not stored
C14_Witness ==
    /\ IsAdd(last)
    /\ last.outcome = "similar"
    /\ Cardinality(DOMAIN prevStore) = 2
    /\ store[last.ret] # prevStore[last.ret]
    /\ _generate_id(last.content, last.source) \notin DOMAIN store

\* C15: a call of add_pain that returns ended in an exact hit (the row of
\* the candidate's own id, is_new False), a similar hit (a row that was
\* primary, is_new False) or a creation (a row that was not there, with
\* frequency 1 and is_primary set, is_new True); is_new is True exactly when
\* the table has one row more than before the call.
C15_ThreeOutcomes ==
    IsAdd(last)
        => /\ last.outcome \in {"exact", "similar", "new"}
           /\ last.is_new <=> last.outcome = "new"
           /\ last.is_new
                 <=> /\ DOMAIN prevStore \subseteq DOMAIN store
                     /\ Cardinality(DOMAIN store)
                           = Cardinality(DOMAIN prevStore) + 1
           /\ ~last.is_new => DOMAIN store = DOMAIN prevStore
           /\ last.outcome = "exact"
                 => /\ last.ret = _generate_id(last.content, last.source)
                    /\ last.ret \in DOMAIN prevStore
           /\ last.outcome = "similar" => last.ret \in Primaries(prevStore)
           /\ last.outcome = "new"
                 => /\ last.ret \notin DOMAIN prevStore
                    /\ last.ret \in DOMAIN store
                    /\ store[last.ret].frequency = 1
                    /\ store[last.ret].is_primary = 1

\* an exact hit on a row that was created and has absorbed a similar
\* candidate: the three outcomes in one history
C15_Witness ==
    /\ IsAdd(last)
    /\ last.outcome = "exact"
    /\ ~last.is_new
    /\ store[last.ret].merged_from # <<>>
    /\ store[last.ret].frequency = 3

(***************************************************************************)
(* Properties of select_projects.                                          *)
(***************************************************************************)
\* The lists _fetch_from_github_api can hand over: projects of different
\* names, highest stars first
AnyPools(now) ==
    {SelectSeq(<<Project("p1", now), Project("p2", now), Project("p3", now),
                 Project("p4", now), Project("p5", now), Project("p6", now)>>,
               LAMBDA p : p.name \in S) :
        S \in SUBSET (Projects \cup {"p6"})}

\* C16: for every list of projects and the history and index of the moment,
\* select_projects raises when fewer than 3 projects pass the cooldown and
\* similarity filters, and otherwise returns 3 projects, pairwise different,
\* each of which passed the filters.
C16_ThreeOrError ==
    \A pool \in AnyPools(today), qOk \in Outcomes(collAvail) :
       LET survivors == Filtered(mem["trending"], collection, collAvail,
                                 pool, today, qOk)
           chosen == select_projects(mem["trending"], collection, collAvail,
                                     pool, today, qOk)
       IN IF Len(survivors) < 3
          THEN chosen = <<>>
          ELSE /\ Len(chosen) = 3
               /\ \A i, j \in 1..3 : i # j => chosen[i] # chosen[j]
               /\ \A i \in 1..3 :
                     \E k \in 1..Len(survivors) : chosen[i] = survivors[k]

\* a run selected p4, p5 and p6 from a list whose first project, p1, is in
\* its cooldown
C16_Witness ==
    /\ pc["trending"] = "selected"
    /\ NamesOf(sel["trending"]) = {"p4", "p5", "p6"}
    /\ _is_recently_recommended(mem["trending"], "p1", today)

(***************************************************************************)
(* Properties of a run on a damaged history file.                          *)
(***************************************************************************)
\* recommended_projects.json is there but is not {"projects": [...]}
Malformed(file) == file.kind \in {"corrupt", "list", "noprojects"}

\* the step is the __init__ of hunter h
Constructs(h) == runs' = runs + 1 /\ pc'[h] # "idle"

\* C17: a hunter built on a malformed history file starts with the empty
\* history {"projects": []}, and the _save_history of GitHubHunter's report
\* does not raise.
C17_MalformedRecovers ==
    [][/\ \A h \in Hunters :
             (Constructs(h) /\ Malformed(histFile))
                => /\ pc'[h] # "failed"
                   /\ mem'[h] = NoHistory
                   /\ run'.has_projects
       /\ pc["hunter"] = "hunting" => pc'["hunter"] # "failed"]_vars

(***************************************************************************)
(* Properties of a failed commit.                                          *)
(***************************************************************************)
\* the step is a call of add_pain, direct or through save_pain, that raised
Raises == calls' = calls + 1 /\ last'.op \in {"add_pain", "save_pain"} /\ last'.raised

\* C18: a call of add_pain whose commit fails returns no record and leaves
\* the vector index as it was; save_pain then returns False and appends
\* nothing to pain_points.
C18_CommitFailure ==
    [][Raises
          => /\ last'.ret = None
             /\ ~last'.is_new
             /\ vectors' = vectors
             /\ ~last'.saved
             /\ pain_points' = pain_points]_vars

\* save_pain of a candidate that is neither stored nor indexed and has no
\* similar row, with the index up, failed at the commit
C18_Witness ==
    /\ last.op = "save_pain"
    /\ last.raised
    /\ vecAvail
    /\ last.fuzzy = "ok"
    /\ DOMAIN store # {}
    /\ find_similar(store, vectors, vecAvail, last.content, NoThreshold, TRUE, last.hit) = None
    /\ _generate_id(last.content, last.source) \notin DOMAIN store
    /\ _generate_id(last.content, last.source) \notin DOMAIN vectors
    /\ ~last.saved

(***************************************************************************)
(* Properties of the intake of items without text.                         *)
(***************************************************************************)
\* C19: add_pain rejects an empty content: the call raises and neither the
\* table nor the index changes.
C19_EmptyRejected ==
    (last.op \in {"add_pain", "save_pain"} /\ last.content = "")
        => /\ last.raised
           /\ store = prevStore
           /\ vectors = prevVectors

(***************************************************************************)
(* Properties of collectors running at the same time.                      *)
(***************************************************************************)
\* C20: when a collector writes the history after the other has written
\* its own, the file still has an entry for every project the other
\* recommended.
C20_NoLostUpdate ==
    [][\A h, g \in Hunters :
          (/\ h # g
           /\ Saves(h)
           /\ pc[g] = "done"
           /\ histFile = JsonFile(mem[g])
           /\ histFile' = JsonFile(mem'[h]))
             => \A i \in 1..Len(sel[g]) :
                   EntriesOf(histFile'.projects, sel[g][i].name) # {}]_vars

(***************************************************************************)
(* Properties of the fingerprints.                                         *)
(***************************************************************************)
\* The (source, author, text) triples the collectors submit
Triples == Candidates \cup {EmptyCandidate}

C22_IndexWithinStore ==
    \A id \in DOMAIN vectors :
       id \in DOMAIN store /\ vectors[id] = store[id].content

\* after a failed upsert and a failed commit: a row without index entry,
\* an index entry, and a candidate that is in neither
C22_Witness ==
    /\ vecAvail
    /\ DOMAIN vectors # {}
    /\ DOMAIN store \ DOMAIN vectors # {}
    /\ last.op \in {"add_pain", "save_pain"}
    /\ last.raised
    /\ Fingerprint(last) \notin DOMAIN store

(***************************************************************************)
(* Properties of the retry loop of GitHubTrendingHunter.run.               *)
(***************************************************************************)
\* the step is a pass of the loop that fell short and goes round again
Retries == pc["trending"] = "ready" /\ pc'["trending"] = "ready" /\ run'.retry # run.retry

\* C23: run makes at most 4 attempts, one per keyword of tried_keywords and
\* no keyword twice; a retry moves to a keyword not tried so far and selects
\* nothing; the article is generated only for a selection of 3 projects.
C23_BoundedRetries ==
    /\ [](/\ run.retry + 1 <= 4
          /\ Len(run.tried_keywords) = run.retry + 1
          /\ run.keyword = run.tried_keywords[Len(run.tried_keywords)]
          /\ \A i, j \in 1..Len(run.tried_keywords) :
                i # j => run.tried_keywords[i] # run.tried_keywords[j]
          /\ pc["trending"] \in {"selected", "generated", "done"}
                => Len(sel["trending"]) = 3)
    /\ [][Retries
             => /\ run'.retry = run.retry + 1
                /\ \A i \in 1..Len(run.tried_keywords) :
                      run'.keyword # run.tried_keywords[i]
                /\ run'.tried_keywords
                      = Append(run.tried_keywords, run'.keyword)
                /\ sel'["trending"] = <<>>]_vars

\* the fourth attempt fell short as well and the run raised
C23_Witness ==
    /\ pc["trending"] = "failed"
    /\ run.retry = 3
    /\ run.tried_keywords
          = <<"ai", "artificial intelligence", "llm", "large language model">>
    /\ sel["trending"] = <<>>

(***************************************************************************)
(* Properties of the order of the steps of GitHubTrendingHunter.run.       *)
(***************************************************************************)
\* C24: while a trending run is under way, the history in memory, the
\* history file and the index change only in the step that ends
\* _save_and_push, which comes after the selection and the generation of
\* the article; that step gives each of the 3 selected projects an entry of
\* today, keeps or prunes every other entry as it was, and writes the
\* history it holds (or fails to write the file).
C24_HistoryAfterArticle ==
    [][pc["trending"] \in {"ready", "selected", "generated"}
          => IF pc'["trending"] = "done"
             THEN /\ pc["trending"] = "generated"
                  /\ Len(sel["trending"]) = 3
                  /\ \A i \in 1..3 :
                        \E k \in EntriesOf(mem'["trending"],
                                           sel["trending"][i].name) :
                           /\ mem'["trending"][k].recommended_at
                                 = DateStr(today)
                           /\ mem'["trending"][k].stars
                                 = sel["trending"][i].stars
                  /\ \A k \in 1..Len(mem'["trending"]) :
                        mem'["trending"][k].name \in NamesOf(sel["trending"])
                           \/ \E j \in 1..Len(mem["trending"]) :
                                 mem["trending"][j] = mem'["trending"][k]
                  /\ histFile' \in {JsonFile(mem'["trending"]), histFile,
                                    FileOf("corrupt")}
             ELSE /\ mem'["trending"] = mem["trending"]
                  /\ histFile' = histFile
                  /\ collection' = collection]_vars

\* a run that recorded its 3 projects next to an entry of an earlier run
C24_Witness ==
    /\ pc["trending"] = "done"
    /\ Len(sel["trending"]) = 3
    /\ histFile = JsonFile(mem["trending"])
    /\ Len(mem["trending"]) > 3
    /\ \A i \in 1..3 : EntriesOf(mem["trending"], sel["trending"][i].name) # {}

(***************************************************************************)
(* Properties of the analysis kept on a merge.                             *)
(***************************************************************************)
\* len() of an analysis, 0 when there is none
Length(text) == IF text = None THEN 0 ELSE Len(text)

\* C25: a merge replaces the stored ai_analysis by the candidate's exactly
\* when the candidate has a non-empty one that is strictly longer than the
\* stored one (or none is stored), and keeps it otherwise; no call ever
\* makes the stored analysis of a row shorter.
C25_LongestWins ==
    /\ \A id \in DOMAIN prevStore :
          id \in DOMAIN store
             => Length(store[id].ai_analysis)
                   >= Length(prevStore[id].ai_analysis)
    /\ (IsAdd(last) /\ last.outcome = "similar")
          => store[last.ret].ai_analysis
                = IF Length(last.analysis)
                        > Length(prevStore[last.ret].ai_analysis)
                  THEN last.analysis
                  ELSE prevStore[last.ret].ai_analysis

\* a merge kept "abc" against the later and shorter "b"
C25_Witness ==
    /\ IsAdd(last)
    /\ last.outcome = "similar"
    /\ last.analysis = "b"
    /\ prevStore[last.ret].ai_analysis = "abc"
    /\ store[last.ret].ai_analysis = "abc"
    /\ store[last.ret].frequency = 3

(***************************************************************************)
(* Properties of the buffer of AutoPublisher.                              *)
(***************************************************************************)
\* the step is a call of save_and_buffer
Buffers == calls' = calls + 1 /\ buffered'.op = "save_and_buffer"

\* C26: a call of save_and_buffer whose id is in the collection returns
\* False; a call that returns False leaves the collection and the three
\* lists as they were; a call that returns True puts its id into the
\* collection and one item on intel_list and on intel_sources.  So
\* intel_list holds one item per call that returned True and no two items
\* of one (source, author, content).
C26_BufferedOnce ==
    /\ [][Buffers
             => /\ buffered'.doc_id \in DOMAIN insights => ~buffered'.ret
                /\ IF buffered'.ret
                   THEN /\ buffered'.doc_id \notin DOMAIN insights
                        /\ DOMAIN insights'
                              = DOMAIN insights \cup {buffered'.doc_id}
                        /\ Len(intel_list') = Len(intel_list) + 1
                        /\ SubSeq(intel_list', 1, Len(intel_list))
                              = intel_list
                        /\ Len(intel_sources') = Len(intel_sources) + 1
                   ELSE /\ insights' = insights
                        /\ intel_list' = intel_list
                        /\ intel_images' = intel_images
                        /\ intel_sources' = intel_sources]_vars
    /\ [](\A i, j \in 1..Len(intel_list) :
             (/\ intel_list[i][1] = intel_list[j][1]
              /\ intel_list[i][3] = intel_list[j][3]
              /\ intel_list[i][4] = intel_list[j][4]) => i = j)

\* an item that is on the list was handed over again, under another tag
\* and with an image, and was turned down
C26_Witness ==
    /\ buffered.op = "save_and_buffer"
    /\ ~buffered.ret
    /\ buffered.doc_id \in DOMAIN insights
    /\ Len(intel_list) = 2
    /\ intel_images = <<>>
    /\ \E i \in 1..Len(intel_list) :
          generate_content_id(intel_list[i][1], intel_list[i][4],
                              intel_list[i][3]) = buffered.doc_id

(***************************************************************************)
(* Properties of the provenance list.                                      *)
(***************************************************************************)
\* C27: the merged_from list of a row never holds the row's own id.
C27_NoSelfProvenance ==
    \A id \in DOMAIN store :
       \A k \in 1..Len(store[id].merged_from) : store[id].merged_from[k] # id

(***************************************************************************)
(* Properties of what save_pain reports.                                   *)
(***************************************************************************)
\* C28: save_pain returns True exactly when its call committed to the
\* table; when it returns False the table is as it was before the call.
C28_FalseMeansUntouched ==
    last.op = "save_pain"
        => /\ last.saved <=> ~last.raised
           /\ ~last.saved => store = prevStore

(***************************************************************************)
(* Properties of the fingerprints as identities.                           *)
(***************************************************************************)
\* Every (source, author, text) over the sources, authors and texts of the
\* submissions
AnyTriples == {t[1] : t \in Triples} \X {t[2] : t \in Triples} \X {t[3] : t \in Triples}

\* C29: the id of a stored row is the id of no other (source, author,
\* text) than the row's own, under _generate_id and under
\* generate_content_id: an item of another author or source is never an
\* exact duplicate of the row.
C29_IdSeparatesAuthors ==
    \A id \in DOMAIN store :
       LET a == <<store[id].source, store[id].author, store[id].content>>
       IN \A b \in AnyTriples :
             a # b
                => /\ generate_content_id(a[1], a[3], a[2])
                         # generate_content_id(b[1], b[3], b[2])
                   /\ _generate_id(b[3], b[1]) # id

(***************************************************************************)
(* Properties of the projects archived by one hunt.                        *)
(***************************************************************************)
\* C30: self.projects of GitHubHunter never holds two entries of one
\* project name.
C30_ArchivedOnce ==
    \A i, j \in 1..Len(sel["hunter"]) :
       i # j => sel["hunter"][i].name # sel["hunter"][j].name

====
